---- MODULE Spec2Model ----
(***************************************************************************)
(* A model of xor-utils (src/src/lib.rs): the streaming repeated-key XOR   *)
(* transform, the key-length estimator, the ASCII key enumerator and the   *)
(* text scorers.  Each component has its own variables and its own         *)
(* specification; a specification leaves the other components' variables   *)
(* at their idle values.                                                    *)
(***************************************************************************)
EXTENDS Integers, Sequences, FiniteSets

VARIABLES
    \* ---- xor (lib.rs 21-57) ----
    src,            \* bytes the reader of the current invocation yields
    pos,            \* how many of them have been read
    key_bytes,      \* the key argument
    key_idx,        \* 0-based index of the next key byte
    warning_shown,  \* the invocation-local flag
    encoded_bytes,  \* the output vector
    xorPc,          \* "idle" | "loop" | "done" | "panic"
    result,         \* what the caller gets: [kind, bytes]
    invocation,     \* 1: first call, 2: the call on the first call's output
    plain,          \* the input of invocation 1
    reads,          \* non-empty reads done in this invocation
    log,            \* the warn! sink: the invocation of each advisory emitted
    \* ---- avg_normalized_hamming_distance (lib.rs 225-274) ----
    input, max_keysize, keysize, table, estPc,
    \* ---- gen_ascii_keys / recursive_add_keys (lib.rs 185-211) ----
    length, stack, keysLen, lastKey, keysPc,
    \* ---- score_words (lib.rs 276-296) ----
    words, dictionary, dictIdx, cloned_input, origin, score, consumed, wordsPc,
    \* ---- <String as Score>::score (lib.rs 88-133) ----
    self, strScore, scorePc

xorVars == <<src, pos, key_bytes, key_idx, warning_shown, encoded_bytes, xorPc,
             result, invocation, plain, reads, log>>
estVars == <<input, max_keysize, keysize, table, estPc>>
keysVars == <<length, stack, keysLen, lastKey, keysPc>>
wordsVars == <<words, dictionary, dictIdx, cloned_input, origin, score, consumed, wordsPc>>
scoreVars == <<self, strScore, scorePc>>
vars == <<xorVars, estVars, keysVars, wordsVars, scoreVars>>
\* What an action of one component leaves alone.
xorRest == <<estVars, keysVars, wordsVars, scoreVars>>
estRest == <<xorVars, keysVars, wordsVars, scoreVars>>
keysRest == <<xorVars, estVars, wordsVars, scoreVars>>
wordsRest == <<xorVars, estVars, keysVars, scoreVars>>
scoreRest == <<xorVars, estVars, keysVars, wordsVars>>

\* ------------------------------------------------------------------------
\* Bounds of the model
\* ------------------------------------------------------------------------
MaxDataLen == 3
MaxKeyLen == 2
MaxInputLen == 7
MaxKeysize == 3
MaxLength == 2
MaxTokens == 3
MaxDictLen == 2
MaxStrLen == 3

\* ------------------------------------------------------------------------
\* Helpers
\* ------------------------------------------------------------------------
Min(a, b) == IF a <= b THEN a ELSE b

RECURSIVE SeqsUpTo(_, _)
\* All sequences over S of length 0..n.
SeqsUpTo(S, n) ==
    IF n = 0 THEN {<<>>}
    ELSE LET shorter == SeqsUpTo(S, n - 1)
         IN  shorter \cup {Append(s, x) : s \in {t \in shorter : Len(t) = n - 1}, x \in S}

RECURSIVE BitXor(_, _)
\* u8 ^ u8 (lib.rs 39), bit by bit.
BitXor(a, b) ==
    IF a = 0 /\ b = 0 THEN 0
    ELSE (((a % 2) + (b % 2)) % 2) + 2 * BitXor(a \div 2, b \div 2)

RECURSIVE PopCount(_)
PopCount(a) == IF a = 0 THEN 0 ELSE (a % 2) + PopCount(a \div 2)

\* ------------------------------------------------------------------------
\* xor  (lib.rs 21-57)
\* ------------------------------------------------------------------------
\* The read buffer: let mut data = [0; 1024].
BufSize == 1024

XorByteVals == {0, 15, 255}

XorIdle ==
    /\ src = <<>> /\ pos = 0 /\ key_bytes = <<>> /\ key_idx = 0
    /\ warning_shown = FALSE /\ encoded_bytes = <<>> /\ xorPc = "idle"
    /\ result = [kind |-> "None", bytes |-> <<>>]
    /\ invocation = 0 /\ plain = <<>> /\ reads = 0 /\ log = <<>>

\* A caller builds a reader over some bytes and calls xor with some key:
\* key_idx = 0, warning_shown = false, encoded_bytes = Vec::new().
XorInit ==
    /\ src \in SeqsUpTo(XorByteVals, MaxDataLen)
    /\ key_bytes \in SeqsUpTo(XorByteVals, MaxKeyLen)
    /\ plain = src
    /\ pos = 0 /\ key_idx = 0 /\ warning_shown = FALSE /\ encoded_bytes = <<>>
    /\ xorPc = "loop"
    /\ result = [kind |-> "None", bytes |-> <<>>]
    /\ invocation = 1 /\ reads = 0 /\ log = <<>>

\* let e = b ^ k
XorByteAdd(b, k) == (b + k) % 256
XorByte(b, k) == BitXor(b, k)

\* if !warning_shown { warning_shown = true; warn!(...) }
WarnAlways(shown) == TRUE
WarnNow(shown) == ~shown

\* One iteration of `for b in data_bytes` (lib.rs 37-53) on the loop state
\* st = [key_idx, warning_shown, encoded_bytes, warns, panicked].  Indexing
\* key_bytes[key_idx] past the end of the slice panics.
XorStep(st, b, key) ==
    IF st.panicked THEN st
    ELSE IF st.key_idx >= Len(key) THEN [st EXCEPT !.panicked = TRUE]
    ELSE LET k == key[st.key_idx + 1]
             e == XorByte(b, k)
             idx1 == st.key_idx + 1
             wrap == idx1 >= Len(key)
             emit == wrap /\ WarnNow(st.warning_shown)
         IN  [key_idx |-> IF wrap THEN idx1 % Len(key) ELSE idx1,
              warning_shown |-> st.warning_shown \/ emit,
              encoded_bytes |-> Append(st.encoded_bytes, e),
              warns |-> st.warns + (IF emit THEN 1 ELSE 0),
              panicked |-> FALSE]

RECURSIVE XorBytes(_, _, _)
\* The whole `for b in data_bytes` loop.
XorBytes(data_bytes, st, key) ==
    IF data_bytes = <<>> THEN st
    ELSE XorBytes(Tail(data_bytes), XorStep(st, Head(data_bytes), key), key)

\* The body of `loop` for one non-empty read: key_idx, warning_shown and
\* encoded_bytes are declared outside the loop and carry over.
XorLoopBodyResetIdx(st, data_bytes, key) ==
    XorBytes(data_bytes, [st EXCEPT !.key_idx = 0], key)
XorLoopBody(st, data_bytes, key) == XorBytes(data_bytes, st, key)

\* reader.read(&mut data[..]) returns num_read in 1..=1024 while bytes remain.
XorRead ==
    /\ xorPc = "loop"
    /\ pos < Len(src)
    /\ \E num_read \in 1..Min(BufSize, Len(src) - pos) :
         LET data_bytes == SubSeq(src, pos + 1, pos + num_read)
             st0 == [key_idx |-> key_idx, warning_shown |-> warning_shown,
                     encoded_bytes |-> encoded_bytes, warns |-> 0,
                     panicked |-> FALSE]
             st == XorLoopBody(st0, data_bytes, key_bytes)
         IN  /\ pos' = pos + num_read
             /\ reads' = reads + 1
             /\ key_idx' = st.key_idx
             /\ warning_shown' = st.warning_shown
             /\ log' = log \o [i \in 1..st.warns |-> invocation]
             /\ IF st.panicked
                THEN /\ xorPc' = "panic"
                     /\ encoded_bytes' = <<>>
                     /\ result' = [kind |-> "Panic", bytes |-> <<>>]
                ELSE /\ xorPc' = "loop"
                     /\ encoded_bytes' = st.encoded_bytes
                     /\ result' = result
    /\ UNCHANGED <<src, key_bytes, invocation, plain>>
    /\ UNCHANGED xorRest

\* num_read == 0: break, and encoded_bytes is returned.
XorEof ==
    /\ xorPc = "loop"
    /\ pos = Len(src)
    /\ xorPc' = "done"
    /\ result' = [kind |-> "Ok", bytes |-> encoded_bytes]
    /\ UNCHANGED <<src, pos, key_bytes, key_idx, warning_shown, encoded_bytes,
                   invocation, plain, reads, log>>
    /\ UNCHANGED xorRest

\* The caller applies xor again, to the bytes returned, with the same key
\* (Xor::xor on a reader over the result): a fresh invocation.
XorAgain ==
    /\ xorPc = "done"
    /\ invocation = 1
    /\ invocation' = 2
    /\ src' = result.bytes
    /\ pos' = 0 /\ key_idx' = 0 /\ warning_shown' = FALSE /\ encoded_bytes' = <<>>
    /\ reads' = 0
    /\ xorPc' = "loop"
    /\ result' = [kind |-> "None", bytes |-> <<>>]
    /\ UNCHANGED <<key_bytes, plain, log>>
    /\ UNCHANGED xorRest

\* ------------------------------------------------------------------------
\* avg_normalized_hamming_distance  (lib.rs 225-274)
\* ------------------------------------------------------------------------
EstByteVals == {0, 1, 255}

EstIdle ==
    /\ input = <<>> /\ max_keysize = 0 /\ keysize = 0
    /\ table = <<>> /\ estPc = "idle"

\* keysize_to_avg_hamming_dist = HashMap::new(); keysize starts at 1.
EstInit ==
    /\ input \in SeqsUpTo(EstByteVals, MaxInputLen)
    /\ max_keysize \in 0..MaxKeysize
    /\ keysize = 1
    /\ table = <<>>
    /\ estPc = "loop"

RECURSIVE Chunks(_, _)
\* input.chunks(keysize): consecutive slices of keysize bytes, the last one
\* holding what is left (1..keysize bytes).
Chunks(bytes, s) ==
    IF bytes = <<>> THEN <<>>
    ELSE IF Len(bytes) <= s THEN <<bytes>>
    ELSE <<SubSeq(bytes, 1, s)>> \o Chunks(SubSeq(bytes, s + 1, Len(bytes)), s)

RECURSIVE Distance(_, _)
\* hamming::distance(left, right): the number of bits that differ.
Distance(left, right) ==
    IF left = <<>> THEN 0
    ELSE PopCount(BitXor(Head(left), Head(right))) + Distance(Tail(left), Tail(right))

\* left_chunk = chunks.next(); right_chunk = chunks.next(): the iterator moves
\* on by two chunks per sample.
NextPairSliding(it) == it + 1
NextPair(it) == it + 2

RECURSIVE SampleLoop(_, _, _, _)
\* `for _ in 1..3` (lib.rs 237-263) from sample number `iter`, with the
\* iterator `it` chunks into cs.  acc = [n |-> num_chunks_compared,
\* sum |-> the sum of the Hamming distances]; average_hamming_dist is
\* sum / keysize, every term being hamming_dist / keysize.
SampleLoop(cs, it, acc, iter) ==
    IF iter >= 3 THEN acc
    ELSE IF it + 1 > Len(cs) THEN acc                      \* left_chunk.is_none()
    ELSE IF it + 2 > Len(cs) THEN acc                      \* right_chunk.is_none()
    ELSE IF Len(cs[it + 1]) # Len(cs[it + 2]) THEN acc     \* left.len() != right.len()
    ELSE SampleLoop(cs, NextPair(it),
                    [n |-> acc.n + 1,
                     sum |-> acc.sum + Distance(cs[it + 1], cs[it + 2])],
                    iter + 1)

\* if num_chunks_compared != 0 { insert(keysize, average / num_chunks_compared) }
\* The f32 value sum / keysize / n is kept as the fraction num / den.
InsertAlways(t, s, acc) ==
    [k \in (DOMAIN t) \cup {s} |->
        IF k = s THEN [num |-> acc.sum, den |-> s * acc.n] ELSE t[k]]
InsertEntry(t, s, acc) ==
    IF acc.n # 0
    THEN [k \in (DOMAIN t) \cup {s} |->
            IF k = s THEN [num |-> acc.sum, den |-> s * acc.n] ELSE t[k]]
    ELSE t

\* One iteration of `for keysize in 1..(max_keysize+1)`.
EstKeysize ==
    /\ estPc = "loop"
    /\ keysize < max_keysize + 1
    /\ LET cs == Chunks(input, keysize)
           acc == SampleLoop(cs, 0, [n |-> 0, sum |-> 0], 1)
       IN  table' = InsertEntry(table, keysize, acc)
    /\ keysize' = keysize + 1
    /\ UNCHANGED <<input, max_keysize, estPc>>
    /\ UNCHANGED estRest

\* The range is exhausted: the map is returned.
EstReturn ==
    /\ estPc = "loop"
    /\ keysize >= max_keysize + 1
    /\ estPc' = "done"
    /\ UNCHANGED <<input, max_keysize, keysize, table>>
    /\ UNCHANGED estRest

\* ------------------------------------------------------------------------
\* gen_ascii_keys / recursive_add_keys  (lib.rs 185-211)
\* ------------------------------------------------------------------------
\* `keys` is only ever pushed to, so it is kept as its length (keysLen) and
\* its last element (lastKey): the n-th element of the final vector is the
\* value of lastKey in the states where keysLen = n.  `stack` holds the
\* frames of recursive_add_keys that are inside their `for idx` loop, each
\* [prefix, idx], innermost last.

\* for idx in 0..128
AsciiEnd == 128

KeysIdle ==
    /\ length = 0 /\ stack = <<>> /\ keysLen = 0 /\ lastKey = <<>>
    /\ keysPc = "idle"

\* keys = Vec::new(); prefix = Vec::new()
KeysInit ==
    /\ length \in 0..MaxLength
    /\ stack = <<>>
    /\ keysLen = 0
    /\ lastKey = <<>>
    /\ keysPc = "call"

\* String::from_utf8(prefix) is Ok, with the same bytes, when every byte is
\* below 128 (the only multi-byte sequences start at 0xC2).
Utf8Ok(bytes) == \A i \in 1..Len(bytes) : bytes[i] < 128

\* new_prefix = prefix.clone(); new_prefix.push(idx)
NewPrefixFront(prefix, idx) == <<idx>> \o prefix
NewPrefix(prefix, idx) == Append(prefix, idx)

Pop(s) == SubSeq(s, 1, Len(s) - 1)

\* gen_ascii_keys calls recursive_add_keys(length, [], &mut keys).  With
\* length = 0 the prefix is complete at once and the key is pushed.
KeysCall ==
    /\ keysPc = "call"
    /\ IF length = 0
       THEN /\ keysLen' = keysLen + 1
            /\ lastKey' = <<>>
            /\ stack' = stack
       ELSE /\ stack' = <<[prefix |-> <<>>, idx |-> 0]>>
            /\ UNCHANGED <<keysLen, lastKey>>
    /\ keysPc' = "run"
    /\ UNCHANGED length
    /\ UNCHANGED keysRest

\* One iteration of `for idx in 0..128` in the innermost frame, with the
\* call it makes: a call whose prefix is complete pushes the key (or panics
\* in unwrap) and returns; any other call enters its own loop.
KeysIter ==
    /\ keysPc = "run"
    /\ stack # <<>>
    /\ LET top == stack[Len(stack)]
           new_prefix == NewPrefix(top.prefix, top.idx)
           rest == [stack EXCEPT ![Len(stack)].idx = top.idx + 1]
       IN  /\ top.idx < AsciiEnd
           /\ IF Len(new_prefix) = length
              THEN IF Utf8Ok(new_prefix)
                   THEN /\ keysLen' = keysLen + 1
                        /\ lastKey' = new_prefix
                        /\ stack' = rest
                        /\ keysPc' = keysPc
                   ELSE /\ keysPc' = "panic"
                        /\ UNCHANGED <<keysLen, lastKey, stack>>
              ELSE /\ stack' = Append(rest, [prefix |-> new_prefix, idx |-> 0])
                   /\ UNCHANGED <<keysLen, lastKey, keysPc>>
    /\ UNCHANGED length
    /\ UNCHANGED keysRest

\* The loop of the innermost frame is over: the call returns.
KeysLoopEnd ==
    /\ keysPc = "run"
    /\ stack # <<>>
    /\ stack[Len(stack)].idx >= AsciiEnd
    /\ stack' = Pop(stack)
    /\ UNCHANGED <<length, keysLen, lastKey, keysPc>>
    /\ UNCHANGED keysRest

\* The outermost call has returned: gen_ascii_keys returns keys.
KeysReturn ==
    /\ keysPc = "run"
    /\ stack = <<>>
    /\ keysPc' = "done"
    /\ UNCHANGED <<length, stack, keysLen, lastKey>>
    /\ UNCHANGED keysRest

\* ------------------------------------------------------------------------
\* score_words  (lib.rs 276-296)
\* ------------------------------------------------------------------------
\* Strings are sequences of one-byte characters.  `score` is the f32 sum of
\* the adjustments 3 * e^len, kept as the sequence of the exponents len
\* added so far.  `origin` and `consumed` are history: origin[i] is the
\* position in `words` of cloned_input[i], and consumed[j] the positions the
\* j-th match removed.
WordTokens == {<<"c", "a", "t">>, <<" ">>, <<"c">>, <<"a", "t">>}
DictWords == {<<"c", "a", "t">>, <<"a", "t">>, <<"t", " ">>, <<>>}

RECURSIVE Flatten(_)
Flatten(ss) == IF ss = <<>> THEN <<>> ELSE Head(ss) \o Flatten(Tail(ss))

WordsIdle ==
    /\ words = <<>> /\ dictionary = <<>> /\ dictIdx = 0 /\ cloned_input = <<>>
    /\ origin = <<>> /\ score = <<>> /\ consumed = <<>> /\ wordsPc = "idle"

\* score = 0.0; cloned_input = words.clone()
WordsInit ==
    /\ words \in {Flatten(ts) : ts \in SeqsUpTo(WordTokens, MaxTokens)}
    /\ dictionary \in SeqsUpTo(DictWords, MaxDictLen)
    /\ dictIdx = 1
    /\ cloned_input = words
    /\ origin = [i \in 1..Len(words) |-> i]
    /\ score = <<>>
    /\ consumed = <<>>
    /\ wordsPc = "loop"

RECURSIVE FindFrom(_, _, _)
\* The first match of the pattern w in s at or after index i; 0 when there
\* is none.  The empty pattern matches at the start.
FindFrom(s, w, i) ==
    IF i + Len(w) - 1 > Len(s) THEN 0
    ELSE IF SubSeq(s, i, i + Len(w) - 1) = w THEN i
    ELSE FindFrom(s, w, i + 1)

\* cloned_input.contains(word.as_str())
Contains(s, w) == FindFrom(s, w, 1) # 0

\* The index range replacen(word, "", 1) cuts out of s: the first match.
RECURSIVE AllCuts(_, _, _)
AllCuts(s, w, i) ==
    LET m == FindFrom(s, w, i)
    IN  IF m = 0 \/ w = <<>> THEN {}
        ELSE (m..(m + Len(w) - 1)) \cup AllCuts(s, w, m + Len(w))
ReplaceAllCut(s, w) == AllCuts(s, w, 1)
ReplacenCut(s, w) ==
    LET m == FindFrom(s, w, 1)
    IN  IF m = 0 THEN {} ELSE m..(m + Len(w) - 1)

RECURSIVE Without(_, _, _)
\* s without the indices in cut, scanning from index i.
Without(s, cut, i) ==
    IF i > Len(s) THEN <<>>
    ELSE (IF i \in cut THEN <<>> ELSE <<s[i]>>) \o Without(s, cut, i + 1)

\* One iteration of `for word in dictionary`.
WordsEntry ==
    /\ wordsPc = "loop"
    /\ dictIdx <= Len(dictionary)
    /\ LET word == dictionary[dictIdx]
       IN  IF Contains(cloned_input, word)
           THEN LET cut == ReplacenCut(cloned_input, word)
                IN  /\ score' = Append(score, Len(word))
                    /\ cloned_input' = Without(cloned_input, cut, 1)
                    /\ origin' = Without(origin, cut, 1)
                    /\ consumed' = Append(consumed, {origin[i] : i \in cut})
           ELSE UNCHANGED <<score, cloned_input, origin, consumed>>
    /\ dictIdx' = dictIdx + 1
    /\ UNCHANGED <<words, dictionary, wordsPc>>
    /\ UNCHANGED wordsRest

\* The dictionary is exhausted: score is returned.
WordsReturn ==
    /\ wordsPc = "loop"
    /\ dictIdx > Len(dictionary)
    /\ wordsPc' = "done"
    /\ UNCHANGED <<words, dictionary, dictIdx, cloned_input, origin, score, consumed>>
    /\ UNCHANGED wordsRest

\* ------------------------------------------------------------------------
\* <String as Score>::score  (lib.rs 88-133)
\* ------------------------------------------------------------------------
\* A char is named by a string; "e_acute" stands for U+00E9, the one
\* non-ASCII char of the model (two bytes in UTF-8).  An f32 is kept as
\* [kind, num, den]: the fraction num / den when kind = "num", or NaN or
\* infinity; rounding is left out.
ScoreChars == {"e", "E", " ", "9", "e_acute"}

IsAscii(c) == c # "e_acute"

ToAsciiLowercase(c) ==
    CASE c = "E" -> "e"
      [] c = "T" -> "t"
      [] c = "A" -> "a"
      [] OTHER -> c

\* The number of bytes of c in UTF-8: String::len counts bytes.
Utf8Len(c) == IF IsAscii(c) THEN 1 ELSE 2

\* get_char_score_map (lib.rs 313-345), in thousandths.
CharScoreMap ==
    [c \in {" ", "e", "t", "a", "o", "i", "n", "s", "h", "r", "d", "l", "c", "u",
            "m", "w", "f", "g", "y", "p", "b", "v", "k", "j", "x", "q", "z"} |->
       CASE c = " " -> 15000 [] c = "e" -> 12702 [] c = "t" -> 9056
         [] c = "a" -> 8167  [] c = "o" -> 7507  [] c = "i" -> 6966
         [] c = "n" -> 6749  [] c = "s" -> 6327  [] c = "h" -> 6094
         [] c = "r" -> 5987  [] c = "d" -> 4253  [] c = "l" -> 4025
         [] c = "c" -> 2782  [] c = "u" -> 2758  [] c = "m" -> 2406
         [] c = "w" -> 2360  [] c = "f" -> 2228  [] c = "g" -> 2015
         [] c = "y" -> 1974  [] c = "p" -> 1929  [] c = "b" -> 1492
         [] c = "v" -> 978   [] c = "k" -> 772   [] c = "j" -> 153
         [] c = "x" -> 150   [] c = "q" -> 95    [] c = "z" -> 74]

Abs(x) == IF x < 0 THEN -x ELSE x

\* f32 division of two non-negative integers: 0.0 / 0.0 is NaN.
F32Div(a, b) ==
    IF b # 0 THEN [kind |-> "num", num |-> a, den |-> b]
    ELSE IF a = 0 THEN [kind |-> "nan", num |-> 0, den |-> 1]
    ELSE [kind |-> "inf", num |-> 0, den |-> 1]

\* f32 multiplication: NaN propagates, and infinity times zero is NaN.
F32Mul(x, y) ==
    IF x.kind = "nan" \/ y.kind = "nan" THEN [kind |-> "nan", num |-> 0, den |-> 1]
    ELSE IF x.kind = "inf" \/ y.kind = "inf"
    THEN IF (x.kind = "num" /\ x.num = 0) \/ (y.kind = "num" /\ y.num = 0)
         THEN [kind |-> "nan", num |-> 0, den |-> 1]
         ELSE [kind |-> "inf", num |-> 0, den |-> 1]
    ELSE [kind |-> "num", num |-> x.num * y.num, den |-> x.den * y.den]

RECURSIVE AsciiOnly(_)
\* chars().filter(is_ascii).map(to_ascii_lowercase).filter(in the map)
AsciiOnly(s) ==
    IF s = <<>> THEN <<>>
    ELSE LET c == Head(s)
             lc == ToAsciiLowercase(c)
         IN  (IF IsAscii(c) /\ lc \in DOMAIN CharScoreMap THEN <<lc>> ELSE <<>>)
             \o AsciiOnly(Tail(s))

RECURSIVE ByteLen(_)
\* self.len()
ByteLen(s) == IF s = <<>> THEN 0 ELSE Utf8Len(Head(s)) + ByteLen(Tail(s))

Count(s, c) == Cardinality({i \in 1..Len(s) : s[i] = c})

RECURSIVE SumDiffs(_, _)
\* The loop over actual_char_frequency (lib.rs 119-125): the sum over the
\* chars present of |expected - count / n| * 10, as a numerator over 1000 * n.
SumDiffs(cs, ascii_only) ==
    IF cs = {} THEN 0
    ELSE LET c == CHOOSE x \in cs : TRUE
             n == Len(ascii_only)
         IN  Abs(CharScoreMap[c] * n - 1000 * Count(ascii_only, c)) * 10
             + SumDiffs(cs \ {c}, ascii_only)

\* The whole of score(): an empty ascii_only leaves sum at 0.0.
StringScore(s) ==
    LET ascii_only == AsciiOnly(s)
        n == Len(ascii_only)
        present == {ascii_only[i] : i \in 1..n}
        sum == IF n = 0 THEN [kind |-> "num", num |-> 0, den |-> 1]
               ELSE [kind |-> "num", num |-> SumDiffs(present, ascii_only),
                     den |-> 1000 * n]
        proportion_of_ascii == F32Div(n, ByteLen(s))
    IN  F32Mul(sum, proportion_of_ascii)

ScoreIdle ==
    /\ self = <<>> /\ strScore = [kind |-> "num", num |-> 0, den |-> 1]
    /\ scorePc = "idle"

ScoreInit ==
    /\ self \in SeqsUpTo(ScoreChars, MaxStrLen)
    /\ strScore = [kind |-> "num", num |-> 0, den |-> 1]
    /\ scorePc = "call"

\* self.score()
ScoreCall ==
    /\ scorePc = "call"
    /\ strScore' = StringScore(self)
    /\ scorePc' = "done"
    /\ UNCHANGED self
    /\ UNCHANGED scoreRest

\* ------------------------------------------------------------------------
\* Specifications: one per component
\* ------------------------------------------------------------------------
InitXor == XorInit /\ EstIdle /\ KeysIdle /\ WordsIdle /\ ScoreIdle
NextXor == XorRead \/ XorEof \/ XorAgain
SpecXor == InitXor /\ [][NextXor]_vars

InitEst == XorIdle /\ EstInit /\ KeysIdle /\ WordsIdle /\ ScoreIdle
NextEst == EstKeysize \/ EstReturn
SpecEst == InitEst /\ [][NextEst]_vars

InitKeys == XorIdle /\ EstIdle /\ KeysInit /\ WordsIdle /\ ScoreIdle
NextKeys == KeysCall \/ KeysIter \/ KeysLoopEnd \/ KeysReturn
SpecKeys == InitKeys /\ [][NextKeys]_vars

InitWords == XorIdle /\ EstIdle /\ KeysIdle /\ WordsInit /\ ScoreIdle
NextWords == WordsEntry \/ WordsReturn
SpecWords == InitWords /\ [][NextWords]_vars

InitScore == XorIdle /\ EstIdle /\ KeysIdle /\ WordsIdle /\ ScoreInit
NextScore == ScoreCall
SpecScore == InitScore /\ [][NextScore]_vars

\* ------------------------------------------------------------------------
\* Claims about xor
\* ------------------------------------------------------------------------
\* The key byte the contract pairs with the i-th (1-based) input byte.
KeyAt(i) == key_bytes[((i - 1) % Len(key_bytes)) + 1]

\* C1: with a non-empty key, however the reads split the input, xor returns
\* as many bytes as the input has, the i-th being input[i] XOR
\* key[i mod key.length]; while it runs, the bytes encoded so far are those
\* of the input read so far.
XorContract ==
    (key_bytes # <<>> /\ xorPc \in {"loop", "done"}) =>
        /\ Len(encoded_bytes) = pos
        /\ \A i \in 1..pos : encoded_bytes[i] = BitXor(src[i], KeyAt(i))
        /\ xorPc = "done" =>
              /\ result.kind = "Ok"
              /\ pos = Len(src)
              /\ result.bytes = encoded_bytes

\* C1 witness: a 3-byte input under a 2-byte key of distinct bytes, read in
\* three reads, so the key position crosses read boundaries and wraps.
XorContractWitness ==
    /\ xorPc = "done" /\ invocation = 1
    /\ Len(src) = 3 /\ Len(key_bytes) = 2 /\ key_bytes[1] # key_bytes[2]
    /\ reads = 3
    /\ result.bytes # src

\* C2: round trip: xor of the output of xor, with the same non-empty key, is
\* the original input.
XorRoundTrip ==
    (invocation = 2 /\ xorPc = "done" /\ key_bytes # <<>>) => result.bytes = plain

\* C2 witness: the second invocation is done on a ciphertext that differs
\* from a 3-byte plaintext in every byte.
XorRoundTripWitness ==
    /\ invocation = 2 /\ xorPc = "done"
    /\ Len(plain) = 3 /\ Len(key_bytes) = 2
    /\ \A i \in 1..3 : src[i] # plain[i]
    /\ result.bytes = plain

\* C3 (as claimed): xor of a non-empty input with an empty key ends with the
\* InvalidKey error reported to the caller and no output bytes.
XorEmptyKeyRejected ==
    (key_bytes = <<>> /\ plain # <<>> /\ xorPc \in {"done", "panic"}) =>
        /\ result.kind = "InvalidKey"
        /\ result.bytes = <<>>

\* The advisories emitted by invocation n.
Advisories(n) == Cardinality({i \in 1..Len(log) : log[i] = n})

\* C7: an invocation of xor emits the key-reused advisory at most once.
XorAdvisoryAtMostOnce == \A n \in 1..2 : Advisories(n) <= 1

\* C7 witness: both invocations emitted it, the second one over several
\* reads of an input at least twice as long as the key (the key index
\* wrapped more than once).
XorAdvisoryWitness ==
    /\ invocation = 2 /\ xorPc = "done"
    /\ log = <<1, 2>>
    /\ reads >= 2
    /\ Len(src) >= 2 * Len(key_bytes)

\* C8 (as claimed): an invocation emits the advisory if and only if the key
\* is strictly shorter than its input.
XorAdvisoryIffKeyShorter ==
    (xorPc = "done" /\ key_bytes # <<>>) =>
        (Advisories(invocation) >= 1 <=> Len(key_bytes) < Len(src))

\* ------------------------------------------------------------------------
\* Claims about avg_normalized_hamming_distance
\* ------------------------------------------------------------------------
\* C4: the table has an entry for a keysize s already handled if and only if
\* the input has at least 2 * s bytes; no key lies outside 1..max_keysize;
\* every entry is a mean over at least one pair (never a placeholder); an
\* empty input gives an empty table.
EstOmission ==
    /\ DOMAIN table \subseteq 1..max_keysize
    /\ \A s \in 1..(keysize - 1) : (s \in DOMAIN table <=> Len(input) >= 2 * s)
    /\ \A s \in DOMAIN table : table[s].den > 0
    /\ (input = <<>> => DOMAIN table = {})
    /\ (estPc = "done" => keysize = max_keysize + 1)

\* C4 witness: four bytes and max_keysize 3: keysizes 1 and 2 are present
\* and keysize 3 is omitted.
EstOmissionWitness ==
    /\ estPc = "done" /\ max_keysize = 3 /\ Len(input) = 4
    /\ DOMAIN table = {1, 2}

\* The k-th (0-based) chunk of s bytes of the input.
ChunkAt(k, s) == SubSeq(input, k * s + 1, (k + 1) * s)

\* Whether bit e of byte x is set.
Bit(x, e) == (x \div (2 ^ e)) % 2

\* The bits in which two chunks of s bytes differ.
DifferingBits(l, r, s) ==
    {p \in (1..s) \X (0..7) : Bit(l[p[1]], p[2]) # Bit(r[p[1]], p[2])}

\* The number of pairs the claim says are compared for keysize s.
PairsCompared(s) == Min(2, (Len(input) \div s) \div 2)

RECURSIVE Rank(_)
\* The 0-based rank of a key among the keys of its length in lexicographic
\* order, the first position the most significant.
Rank(key) ==
    IF key = <<>> THEN 0
    ELSE Rank(SubSeq(key, 1, Len(key) - 1)) * 128 + key[Len(key)]

RECURSIVE Pow(_, _)
Pow(b, e) == IF e = 0 THEN 1 ELSE b * Pow(b, e - 1)

\* C5: the n-th key pushed is the n-th string of `length` bytes in 0..=127 in
\* ascending lexicographic order (first position slowest), so the keys are
\* distinct and ascending; the vector returned holds 128^length keys, and
\* for length 0 exactly the empty string.
KeysEnumerated ==
    /\ keysPc # "panic"
    /\ keysLen >= 1 =>
          /\ Len(lastKey) = length
          /\ \A i \in 1..Len(lastKey) : lastKey[i] \in 0..127
          /\ Rank(lastKey) = keysLen - 1
    /\ keysPc = "done" => keysLen = Pow(128, length)

\* C5 witness: length 2 is done, with 16384 keys, the last one <<127, 127>>.
KeysEnumeratedWitness ==
    /\ keysPc = "done" /\ length = 2
    /\ keysLen = 16384 /\ lastKey = <<127, 127>>

\* ------------------------------------------------------------------------
\* Claims about score_words
\* ------------------------------------------------------------------------
RECURSIVE SumSeq(_)
SumSeq(s) == IF s = <<>> THEN 0 ELSE Head(s) + SumSeq(Tail(s))

RECURSIVE Keep(_, _, _)
\* s restricted to the indices outside gone, from index i on.
Keep(s, gone, i) ==
    IF i > Len(s) THEN <<>>
    ELSE (IF i \in gone THEN <<>> ELSE <<s[i]>>) \o Keep(s, gone, i + 1)

\* Whether w occurs in s at index i.
OccursAt(s, w, i) == i >= 1 /\ i + Len(w) - 1 <= Len(s) /\ SubSeq(s, i, i + Len(w) - 1) = w

WordsInv ==
    /\ Len(score) = Len(consumed)
    /\ Len(score) <= dictIdx - 1
    /\ \A j \in 1..Len(consumed) :
          /\ consumed[j] \subseteq 1..Len(words)
          /\ Cardinality(consumed[j]) = score[j]
          /\ \A k \in 1..Len(consumed) : j # k => consumed[j] \cap consumed[k] = {}
    /\ Len(cloned_input) = Len(words) - SumSeq(score)
    /\ cloned_input = Keep(words, UNION {consumed[j] : j \in 1..Len(consumed)}, 1)
    /\ (/\ wordsPc = "done"
        /\ words = <<"c", "a", "t", " ", "c", "a", "t">>
        /\ dictionary = <<(<<"c", "a", "t">>)>>)
       => (Len(score) = 1 /\ cloned_input = <<" ", "c", "a", "t">>)

WordsStep ==
    LET word == dictionary[dictIdx]
    IN  \/ /\ \A i \in 1..(Len(cloned_input) + 1) : ~OccursAt(cloned_input, word, i)
           /\ score' = score /\ cloned_input' = cloned_input
        \/ \E i \in 1..(Len(cloned_input) + 1) :
              /\ OccursAt(cloned_input, word, i)
              /\ \A h \in 1..(i - 1) : ~OccursAt(cloned_input, word, h)
              /\ score' = Append(score, Len(word))
              /\ cloned_input' = SubSeq(cloned_input, 1, i - 1)
                                 \o SubSeq(cloned_input, i + Len(word), Len(cloned_input))

\* C6: each dictionary entry is handled once, in order; it counts at most
\* once, exactly when it occurs in the working copy, and then its first
\* occurrence alone is removed; the text positions counted for different
\* entries are disjoint; ["cat"] on "cat cat" counts one match.
WordsNonReuse == []WordsInv /\ [][dictIdx' # dictIdx => (dictIdx' = dictIdx + 1 /\ WordsStep)]_vars

\* C6 witness: ["cat"] on "cat cat" is done with one match.
WordsNonReuseWitness ==
    /\ wordsPc = "done"
    /\ words = <<"c", "a", "t", " ", "c", "a", "t">>
    /\ dictionary = <<(<<"c", "a", "t">>)>>
    /\ score = <<3>>
    /\ consumed = <<{1, 2, 3}>>

\* ------------------------------------------------------------------------
\* Claims about <String as Score>::score
\* ------------------------------------------------------------------------
\* C10 (as claimed): a string with no char of the reference alphabet, the
\* empty string included, scores 0, never NaN.
ScoreDegenerateIsZero ==
    (scorePc = "done" /\ AsciiOnly(self) = <<>>) =>
        (strScore.kind = "num" /\ strScore.num = 0)

====
